---- MODULE Spec2Model ----
(***************************************************************************)
(* A model of package exchange (src/exchange.go): the validators, the      *)
(* request encoder processQuery, and the fetch pipeline Exchange.get with   *)
(* the process-wide response cache.                                         *)
(*                                                                          *)
(* Strings are sequences of one-character strings, so that len(), the date  *)
(* layout and the query escaping are computed and not assumed.              *)
(* A time.Time produced by parseDate is a whole number of days since        *)
(* 1970-01-01 UTC (the layout has no time of day and no zone).              *)
(***************************************************************************)
EXTENDS Integers, Sequences, FiniteSets, TLC

(***************************************************************************)
(* Errors (src/exchange.go:19-35).  "nil" is the nil error.                 *)
(***************************************************************************)
nil == "nil"
ErrInvalidCode == "ErrInvalidCode"
ErrInvalidDate == "ErrInvalidDate"
ErrInvalidDateFormat == "ErrInvalidDateFormat"
ErrTimeframeExceeded == "ErrTimeframeExceeded"
ErrInvalidTimeFrame == "ErrInvalidTimeFrame"
ErrInvalidAPIResponse == "ErrInvalidAPIResponse"

(***************************************************************************)
(* Characters                                                               *)
(***************************************************************************)
DigitChars == {"0", "1", "2", "3", "4", "5", "6", "7", "8", "9"}

isDigit(s, i) == i + 1 <= Len(s) /\ s[i + 1] \in DigitChars

DigitVal(c) ==
    CASE c = "0" -> 0 [] c = "1" -> 1 [] c = "2" -> 2 [] c = "3" -> 3
      [] c = "4" -> 4 [] c = "5" -> 5 [] c = "6" -> 6 [] c = "7" -> 7
      [] c = "8" -> 8 [] c = "9" -> 9

DigitChar(n) ==
    CASE n = 0 -> "0" [] n = 1 -> "1" [] n = 2 -> "2" [] n = 3 -> "3"
      [] n = 4 -> "4" [] n = 5 -> "5" [] n = 6 -> "6" [] n = 7 -> "7"
      [] n = 8 -> "8" [] n = 9 -> "9"

(***************************************************************************)
(* ValidateCode, ValidateSymbols (src/exchange.go:109-126)                  *)
(***************************************************************************)
ValidateCode(code) == IF Len(code) # 3 THEN ErrInvalidCode ELSE nil

RECURSIVE ValidateSymbols(_)
ValidateSymbols(symbols) ==
    IF symbols = <<>> THEN nil
    ELSE IF ValidateCode(Head(symbols)) # nil THEN ValidateCode(Head(symbols))
    ELSE ValidateSymbols(Tail(symbols))

(***************************************************************************)
(* time.Parse with layout "2006-01-02" (src/exchange.go:128-135).           *)
(* The layout is year (four digits), "-", month (two digits), "-", day (two *)
(* digits), and nothing after; the month must be 1..12 and the day must     *)
(* exist in that month of that year.  Every failure is wrapped into         *)
(* ErrInvalidDateFormat.                                                    *)
(***************************************************************************)
isLeap(year) == year % 4 = 0 /\ (year % 100 # 0 \/ year % 400 = 0)

daysIn(month, year) ==
    IF month = 2 THEN (IF isLeap(year) THEN 29 ELSE 28)
    ELSE IF month \in {4, 6, 9, 11} THEN 30 ELSE 31

\* Days from 1970-01-01 to year-month-day in the proleptic Gregorian calendar.
daysSinceEpoch(year, month, day) ==
    LET y   == IF month <= 2 THEN year - 1 ELSE year
        era == y \div 400
        yoe == y - era * 400
        mp  == IF month > 2 THEN month - 3 ELSE month + 9
        doy == (153 * mp + 2) \div 5 + day - 1
        doe == yoe * 365 + yoe \div 4 - yoe \div 100 + doy
    IN  era * 146097 + doe - 719468

\* getnum(s, fixed = true): exactly two leading digits.
getnum(s) ==
    IF isDigit(s, 0) /\ isDigit(s, 1)
    THEN [ok |-> TRUE, n |-> DigitVal(s[1]) * 10 + DigitVal(s[2]), rest |-> SubSeq(s, 3, Len(s))]
    ELSE [ok |-> FALSE, n |-> 0, rest |-> s]

\* A literal "-" of the layout.
skipDash(s) ==
    IF Len(s) >= 1 /\ s[1] = "-"
    THEN [ok |-> TRUE, rest |-> Tail(s)]
    ELSE [ok |-> FALSE, rest |-> s]

parseDate(s) ==
    LET bad    == [err |-> ErrInvalidDateFormat, t |-> 0]
        yearOK == Len(s) >= 4 /\ \A i \in 0..3 : isDigit(s, i)
        year   == DigitVal(s[1]) * 1000 + DigitVal(s[2]) * 100
                    + DigitVal(s[3]) * 10 + DigitVal(s[4])
        d1     == skipDash(SubSeq(s, 5, Len(s)))
        mon    == getnum(d1.rest)
        d2     == skipDash(mon.rest)
        dd     == getnum(d2.rest)
    IN  IF ~yearOK THEN bad
        ELSE IF ~d1.ok THEN bad
        ELSE IF ~mon.ok THEN bad
        ELSE IF ~d2.ok THEN bad
        ELSE IF ~dd.ok THEN bad
        ELSE IF dd.rest # <<>> THEN bad
        ELSE IF mon.n <= 0 \/ 12 < mon.n THEN bad
        ELSE IF dd.n < 1 \/ dd.n > daysIn(mon.n, year) THEN bad
        ELSE [err |-> nil, t |-> daysSinceEpoch(year, mon.n, dd.n)]

(***************************************************************************)
(* ValidateDate (src/exchange.go:137-151)                                   *)
(***************************************************************************)
oldestDateString == <<"1", "9", "9", "9", "-", "0", "1", "-", "0", "3">>

ValidateDate(date) ==
    LET oldestDate   == parseDate(oldestDateString)
        selectedDate == parseDate(date)
    IN  IF oldestDate.err # nil THEN "panic"
        ELSE IF selectedDate.err # nil THEN selectedDate.err
        ELSE IF selectedDate.t < oldestDate.t THEN ErrInvalidDate
        ELSE nil

(***************************************************************************)
(* ValidateTimeFrame (src/exchange.go:153-172).                             *)
(* to.Sub(from) is an int64 count of nanoseconds that saturates at          *)
(* 2^63-1 ns, which is 106751 whole days; Hours() of a whole number of days *)
(* is 24 times the days, and Hours() of the saturated duration is           *)
(* 2562047.78...  The limit 8759.992992006 is not a whole number, and the   *)
(* whole part of the hours is never 8759 (a multiple of 24, or 2562047), so *)
(* hours > 8759.992992006 exactly when the whole hours exceed 8759.         *)
(***************************************************************************)
MaxWholeHours == 8759

MaxDurationDays == 106751

SubHours(to, from) ==
    IF to - from > MaxDurationDays THEN 2562047 ELSE 24 * (to - from)

ValidateTimeFrame(TimeFrame) ==
    LET from == parseDate(TimeFrame[1])
        to   == parseDate(TimeFrame[2])
    IN  IF from.err # nil THEN from.err
        ELSE IF to.err # nil THEN to.err
        ELSE IF to.t < from.t THEN ErrInvalidTimeFrame
        ELSE IF SubHours(to.t, from.t) > MaxWholeHours THEN ErrTimeframeExceeded
        ELSE nil

(***************************************************************************)
(* The query (src/exchange.go:55-63).  The empty string is <<>>.            *)
(***************************************************************************)
EmptyString == <<>>

query(From, To, Base, Amount, Symbols, Date, TimeFrame) ==
    [From |-> From, To |-> To, Base |-> Base, Amount |-> Amount,
     Symbols |-> Symbols, Date |-> Date, TimeFrame |-> TimeFrame]

\* Client.AccessKey (src/exchange.go:75): read once from the environment.
AccessKey == <<"K", "E", "Y">>

\* strconv.Itoa for the positive amounts that are encoded.
RECURSIVE Itoa(_)
Itoa(n) ==
    IF n < 10 THEN <<DigitChar(n)>>
    ELSE Itoa(n \div 10) \o <<DigitChar(n % 10)>>

\* strings.Join(elems, ",")
RECURSIVE Join(_)
Join(elems) ==
    IF elems = <<>> THEN <<>>
    ELSE IF Len(elems) = 1 THEN elems[1]
    ELSE elems[1] \o <<",">> \o Join(Tail(elems))

(***************************************************************************)
(* url.Values.Encode (src/exchange.go:273): the parameters sorted by name,  *)
(* each value query-escaped.  Letters, digits and "-", "_", ".", "~" are    *)
(* kept; a space becomes "+"; any other byte becomes %XX.                   *)
(***************************************************************************)
Letters ==
    {"A", "B", "C", "D", "E", "F", "G", "H", "I", "J", "K", "L", "M",
     "N", "O", "P", "Q", "R", "S", "T", "U", "V", "W", "X", "Y", "Z",
     "a", "b", "c", "d", "e", "f", "g", "h", "i", "j", "k", "l", "m",
     "n", "o", "p", "q", "r", "s", "t", "u", "v", "w", "x", "y", "z"}

Unreserved == Letters \cup DigitChars \cup {"-", "_", ".", "~"}

EscapeChar(c) ==
    IF c \in Unreserved THEN <<c>>
    ELSE CASE c = " " -> <<"+">>
           [] c = "," -> <<"%", "2", "C">>
           [] c = "/" -> <<"%", "2", "F">>
           [] c = ":" -> <<"%", "3", "A">>
           [] c = "&" -> <<"%", "2", "6">>
           [] c = "=" -> <<"%", "3", "D">>    \* (the other bytes are not used)

RECURSIVE QueryEscape(_)
QueryEscape(s) ==
    IF s = <<>> THEN <<>> ELSE EscapeChar(Head(s)) \o QueryEscape(Tail(s))

\* The parameter names of processQuery in byte order, which is the order of
\* sort.Strings in Encode.
SortedNames ==
    <<"access_key", "amount", "base", "date", "end_date", "from",
      "start_date", "symbols", "to">>

\* Q is a function from the names that were added to their value; the result
\* is the sequence of <<name, escaped value>> that Encode joins with "=", "&".
RECURSIVE EncodeFrom(_, _)
EncodeFrom(Q, i) ==
    IF i > Len(SortedNames) THEN <<>>
    ELSE IF SortedNames[i] \in DOMAIN Q
         THEN <<<<SortedNames[i], QueryEscape(Q[SortedNames[i]])>>>> \o EncodeFrom(Q, i + 1)
         ELSE EncodeFrom(Q, i + 1)

Encode(Q) == EncodeFrom(Q, 1)

\* Q.Add(name, value) when the name has no value yet (each name is added once).
Add(Q, name, value) ==
    [n \in DOMAIN Q \cup {name} |-> IF n = name THEN value ELSE Q[n]]

(***************************************************************************)
(* processQuery (src/exchange.go:219-276).  The result is the error and     *)
(* req.URL.RawQuery, which stays empty when an error is returned.           *)
(***************************************************************************)
NoTimeFrame == <<EmptyString, EmptyString>>

processQuery(q) ==
    LET fail(e) == [err |-> e, RawQuery |-> <<>>]
        Q0 == Add(<<>>, "access_key", AccessKey)
        Q1 == IF q.Base # EmptyString THEN Add(Q0, "base", q.Base) ELSE Q0
        Q2 == IF q.From # EmptyString THEN Add(Q1, "from", q.From) ELSE Q1
        Q3 == IF q.To # EmptyString THEN Add(Q2, "to", q.To) ELSE Q2
        Q4 == IF q.Amount > 1 THEN Add(Q3, "amount", Itoa(q.Amount)) ELSE Q3
        Q5 == IF Len(q.Symbols) # 0 THEN Add(Q4, "symbols", Join(q.Symbols)) ELSE Q4
        Q6 == IF q.Date # EmptyString THEN Add(Q5, "date", q.Date) ELSE Q5
        Q7 == IF q.TimeFrame # NoTimeFrame
              THEN Add(Add(Q6, "start_date", q.TimeFrame[1]), "end_date", q.TimeFrame[2])
              ELSE Q6
    IN  IF q.Base # EmptyString /\ ValidateCode(q.Base) # nil THEN fail(ValidateCode(q.Base))
        ELSE IF q.From # EmptyString /\ ValidateCode(q.From) # nil THEN fail(ValidateCode(q.From))
        ELSE IF q.To # EmptyString /\ ValidateCode(q.To) # nil THEN fail(ValidateCode(q.To))
        ELSE IF q.Date # EmptyString /\ ValidateDate(q.Date) # nil THEN fail(ValidateDate(q.Date))
        ELSE IF q.TimeFrame # NoTimeFrame /\ ValidateDate(q.TimeFrame[1]) # nil
             THEN fail(ValidateDate(q.TimeFrame[1]))
        ELSE IF q.TimeFrame # NoTimeFrame /\ ValidateTimeFrame(q.TimeFrame) # nil
             THEN fail(ValidateTimeFrame(q.TimeFrame))
        ELSE [err |-> nil, RawQuery |-> Encode(Q7)]

(***************************************************************************)
(* Endpoints (src/exchange.go:37-46) and the calls the model makes.  Each   *)
(* input is the url and the query an endpoint adapter hands to get:         *)
(* LatestRatesAll on an Exchange with Base "EUR", and ConvertTo("US", 5) on *)
(* the same Exchange, whose target code is not three characters long.       *)
(***************************************************************************)
latestURL == "https://api.exchangerate.host/latest"
convertURL == "https://api.exchangerate.host/convert"

EUR == <<"E", "U", "R">>

LatestRatesAllInput ==
    [url |-> latestURL,
     q |-> query(EmptyString, EmptyString, EUR, 0, <<>>, EmptyString, NoTimeFrame)]

ConvertToInput ==
    [url |-> convertURL,
     q |-> query(EUR, <<"U", "S">>, EmptyString, 5, <<>>, EmptyString, NoTimeFrame)]

FetchInputs == {LatestRatesAllInput, ConvertToInput}

\* The calls of the goroutines that run concurrently: all fetch the latest
\* rates, so that they meet on one key of the cache.
ConcurrentInputs == {LatestRatesAllInput}

(***************************************************************************)
(* Bounds of the model.  The clock counts units of which DayLen make a UTC  *)
(* day; the upstream service has versions 1..MaxVersion of its rates, which *)
(* change as it pleases.                                                    *)
(***************************************************************************)
DayLen == 2
MaxTime == 3
MaxVersion == 2

\* The goroutines of the embedding application, each with its own Exchange.
Procs == {"g1", "g2"}

(***************************************************************************)
(* cacheDuration (src/exchange.go:102-107): the time from now to the next   *)
(* UTC midnight, now.AddDate(0, 0, 1).Truncate(24h) - now.                  *)
(***************************************************************************)
NextMidnight(t) == ((t + DayLen) \div DayLen) * DayLen

cacheDuration(t) == NextMidnight(t) - t

(***************************************************************************)
(* The cache (Client.Cache, src/exchange.go:74): a function from the keys   *)
(* that are set to items.  An item holds the payload and the time it        *)
(* expires; Stored is the time of the store, kept for the properties.       *)
(***************************************************************************)
\* A Get whose expiry test is the wrong way round.
CacheGetInverted(c, k, t) ==
    IF k \in DOMAIN c /\ t > c[k].Expiration
    THEN [ok |-> TRUE, item |-> c[k]]
    ELSE [ok |-> FALSE, item |-> [Object |-> <<>>, Expiration |-> 0, Stored |-> 0]]

\* Cache.Get (src/exchange.go:185): an item is found unless now is past its
\* expiration.
CacheGet(c, k, t) ==
    IF k \in DOMAIN c /\ ~(t > c[k].Expiration)
    THEN [ok |-> TRUE, item |-> c[k]]
    ELSE [ok |-> FALSE, item |-> [Object |-> <<>>, Expiration |-> 0, Stored |-> 0]]

\* A store that keeps an item that is already there (Cache.Add).
SetIfAbsent(c, k, x, t, d) ==
    IF k \in DOMAIN c /\ ~(t > c[k].Expiration) THEN c
    ELSE [j \in DOMAIN c \cup {k} |->
            IF j = k THEN [Object |-> x, Expiration |-> t + d, Stored |-> t] ELSE c[j]]

\* Cache.SetDefault (src/exchange.go:213): replaces whatever the key held.
SetDefault(c, k, x, t, d) ==
    [j \in DOMAIN c \cup {k} |->
        IF j = k THEN [Object |-> x, Expiration |-> t + d, Stored |-> t] ELSE c[j]]

\* The janitor started by gocache.New (src/exchange.go:74) deletes the items
\* that have expired.
DeleteExpired(c, t) ==
    [j \in {i \in DOMAIN c : ~(t > c[i].Expiration)} |-> c[j]]

(***************************************************************************)
(* What the HTTP collaborator can hand back for one request                 *)
(* (src/exchange.go:190-210).                                               *)
(***************************************************************************)
\* A decoded JSON object is a function from its member names to their values;
\* the value of "success" is written as its JSON token (true, false, "yes").
\* The rates the service serves depend on the request and on the version of
\* its data at the time of the request.
Payload(k, v) == [success |-> "true", rates |-> [request |-> k, version |-> v]]

Responses(k) ==
    { [kind |-> "transport error"],                  \* Do fails
      [kind |-> "read error"],                       \* io.ReadAll fails
      [kind |-> "not json"],                         \* json.Unmarshal fails
      [kind |-> "json", result |-> [success |-> "false"]],
      [kind |-> "json", result |-> [error |-> "x"]], \* no "success" member
      [kind |-> "json", result |-> [success |-> "\"yes\""]] }
    \cup { [kind |-> "json", result |-> Payload(k, v)] : v \in 1..MaxVersion }

\* A check that takes any boolean "success" for a success.
successCheckAnyBool(result) ==
    IF "success" \notin DOMAIN result THEN "panic"
    ELSE IF result.success \notin {"true", "false"} THEN "panic"
    ELSE nil

\* Lines 206-210: success := result["success"]; if !success.(bool) {...}.
\* The type assertion panics when the member is missing or is not a boolean.
successCheck(result) ==
    IF "success" \notin DOMAIN result THEN "panic"
    ELSE IF result.success \notin {"true", "false"} THEN "panic"
    ELSE IF result.success = "false" THEN ErrInvalidAPIResponse
    ELSE nil

\* Lines 190-210: the outcome of the transport, read, decode and check.
receive(resp) ==
    IF resp.kind = "transport error" THEN [err |-> "transport error", result |-> <<>>]
    ELSE IF resp.kind = "read error" THEN [err |-> "read error", result |-> <<>>]
    ELSE IF resp.kind = "not json" THEN [err |-> "unmarshal error", result |-> <<>>]
    ELSE IF successCheck(resp.result) # nil
         THEN [err |-> successCheck(resp.result), result |-> <<>>]
    ELSE [err |-> nil, result |-> resp.result]

\* Line 182: req.URL.String() of the request after processQuery.
requestKey(url, RawQuery) == [url |-> url, RawQuery |-> RawQuery]

\* A get that uses the cache whatever the Exchange says.
useCacheAlways(enabled) == TRUE

\* Lines 184 and 212: the cache is used only by an Exchange with CacheEnabled.
useCache(enabled) == enabled

(***************************************************************************)
(* State                                                                    *)
(***************************************************************************)
VARIABLES
    now,                \* the wall clock
    defaultExpiration,  \* the cache's default expiration, set at process start
    cache,              \* Client.Cache
    CacheEnabled,       \* Exchange.CacheEnabled of each goroutine's Exchange
    pc,                 \* where each goroutine is in get
    cacheKey,           \* get's cacheKey
    encErr,             \* what processQuery returned (get drops it)
    netCalls,           \* the requests the fetch handed to Client.Do
    result,             \* what get returns
    probed,             \* history: line 184 read the flag as true
    stored,             \* history: the fetch stored its payload (line 213 ran)
    prev,               \* history: the fetch that returned last (SpecSeq)
    arg,                \* SpecValidate: the call that is made
    ret                 \* SpecValidate: what the call returned

vars == <<now, defaultExpiration, cache, CacheEnabled, pc, cacheKey,
          encErr, netCalls, result, probed, stored, prev, arg, ret>>

NoCall == [op |-> "none"]
NotReturned == [returned |-> FALSE]

NoKey == [url |-> "", RawQuery |-> <<>>]

\* err and payload are what get returns; from is where the payload came from.
NoResult == [err |-> nil, payload |-> <<>>, from |-> ""]

NoPrev == [key |-> NoKey, payload |-> <<>>, exp |-> 0, calls |-> 0]

\* No goroutine has panicked: an unrecovered panic ends the process.
Running == \A p \in Procs : pc[p] # "panicked"

(***************************************************************************)
(* Init: the package variables are initialised (the cache is created with   *)
(* cacheDuration() at the time the process starts, which is any time of the *)
(* day) and every Exchange comes from New, which enables caching            *)
(* (src/exchange.go:68-86).                                                 *)
(***************************************************************************)
InitFetch ==
    /\ now \in 0..(DayLen - 1)
    /\ defaultExpiration = cacheDuration(now)
    /\ cache = <<>>
    /\ CacheEnabled = [p \in Procs |-> TRUE]
    /\ pc = [p \in Procs |-> "idle"]
    /\ cacheKey = [p \in Procs |-> NoKey]
    /\ encErr = [p \in Procs |-> nil]
    /\ netCalls = [p \in Procs |-> 0]
    /\ result = [p \in Procs |-> NoResult]
    /\ probed = [p \in Procs |-> FALSE]
    /\ stored = [p \in Procs |-> FALSE]
    /\ prev = NoPrev

Init ==
    /\ InitFetch
    /\ arg = NoCall
    /\ ret = NotReturned

(***************************************************************************)
(* get (src/exchange.go:174-217) step by step.  Each access to what the     *)
(* goroutines share is a step of its own: the read of the flag at line 184, *)
(* Cache.Get at line 185, the return of Client.Do with the read of the flag *)
(* at line 212, Cache.SetDefault at line 213.  What lies between two of     *)
(* them is local to the goroutine and belongs to the step that follows.     *)
(* pc is "idle" outside get, "probe" before line 185, "transport" while the *)
(* request is with Client.Do, "store" before line 213, "done" when get has  *)
(* returned, "panicked" when it panicked.                                   *)
(***************************************************************************)

\* SetCache (src/exchange.go:97-100): a plain write of the field, which
\* nothing orders with the reads of lines 184 and 212.  It can be made at any
\* time, also while a get on the same Exchange runs (by another goroutine
\* that holds the Exchange, or by the application's transport inside
\* Client.Do); each read then sees the old or the new value.
SetCache(p, enabled) ==
    /\ Running
    /\ CacheEnabled' = [CacheEnabled EXCEPT ![p] = enabled]
    /\ UNCHANGED <<now, defaultExpiration, cache, pc, cacheKey, encErr,
                   netCalls, result, probed, stored, prev, arg, ret>>

\* get, lines 175-184: the request is built, processQuery runs and its error
\* is dropped, the cache key is the URL of the request, the flag is read.
\* With the flag false the request goes to Client.Do (line 190).
Begin(p, in) ==
    /\ Running
    /\ pc[p] = "idle"
    /\ LET enc == processQuery(in.q)
       IN  /\ cacheKey' = [cacheKey EXCEPT ![p] = requestKey(in.url, enc.RawQuery)]
           /\ encErr' = [encErr EXCEPT ![p] = enc.err]
    /\ probed' = [probed EXCEPT ![p] = useCache(CacheEnabled[p])]
    /\ stored' = [stored EXCEPT ![p] = FALSE]
    /\ IF useCache(CacheEnabled[p])
       THEN /\ pc' = [pc EXCEPT ![p] = "probe"]
            /\ netCalls' = [netCalls EXCEPT ![p] = 0]
       ELSE /\ pc' = [pc EXCEPT ![p] = "transport"]
            /\ netCalls' = [netCalls EXCEPT ![p] = 1]
    /\ UNCHANGED <<now, defaultExpiration, cache, CacheEnabled, result, prev,
                   arg, ret>>

\* get, lines 185-190: a key that is found in the cache is returned; with a
\* miss the request goes to Client.Do.
Probe(p) ==
    /\ Running
    /\ pc[p] = "probe"
    /\ LET got == CacheGet(cache, cacheKey[p], now)
       IN  IF got.ok
           THEN /\ pc' = [pc EXCEPT ![p] = "done"]
                /\ result' = [result EXCEPT ![p] =
                       [err |-> nil, payload |-> got.item.Object, from |-> "cache"]]
                /\ UNCHANGED netCalls
           ELSE /\ pc' = [pc EXCEPT ![p] = "transport"]
                /\ netCalls' = [netCalls EXCEPT ![p] = 1]
                /\ UNCHANGED result
    /\ UNCHANGED <<now, defaultExpiration, cache, CacheEnabled, cacheKey,
                   encErr, probed, stored, prev, arg, ret>>

\* get, lines 190-212: Client.Do returns; the body is read, decoded and
\* checked; the flag is read again.  With the flag false get returns the
\* payload without a store.
Transport(p) ==
    /\ Running
    /\ pc[p] = "transport"
    /\ \E resp \in Responses(cacheKey[p]) :
         LET got == receive(resp)
         IN  /\ pc' = [pc EXCEPT ![p] =
                    IF got.err = "panic" THEN "panicked"
                    ELSE IF got.err # nil THEN "done"
                    ELSE IF useCache(CacheEnabled[p]) THEN "store" ELSE "done"]
             /\ result' = [result EXCEPT ![p] =
                    [err |-> got.err, payload |-> got.result, from |-> "network"]]
    /\ UNCHANGED <<now, defaultExpiration, cache, CacheEnabled, cacheKey,
                   encErr, netCalls, probed, stored, prev, arg, ret>>

\* get, lines 213-216: the payload is stored with the time of the store, and
\* get returns it.
Store(p) ==
    /\ Running
    /\ pc[p] = "store"
    /\ pc' = [pc EXCEPT ![p] = "done"]
    /\ cache' = SetDefault(cache, cacheKey[p], result[p].payload, now,
                           defaultExpiration)
    /\ stored' = [stored EXCEPT ![p] = TRUE]
    /\ UNCHANGED <<now, defaultExpiration, CacheEnabled, cacheKey, encErr,
                   netCalls, result, probed, prev, arg, ret>>

\* get has returned and its caller goes on.
Returned(p) ==
    /\ Running
    /\ pc[p] = "done"
    /\ pc' = [pc EXCEPT ![p] = "idle"]
    /\ cacheKey' = [cacheKey EXCEPT ![p] = NoKey]
    /\ encErr' = [encErr EXCEPT ![p] = nil]
    /\ netCalls' = [netCalls EXCEPT ![p] = 0]
    /\ result' = [result EXCEPT ![p] = NoResult]
    /\ probed' = [probed EXCEPT ![p] = FALSE]
    /\ stored' = [stored EXCEPT ![p] = FALSE]
    /\ UNCHANGED <<now, defaultExpiration, cache, CacheEnabled, arg, ret>>

Return(p) == Returned(p) /\ UNCHANGED prev

\* Time passes.
Tick ==
    /\ Running
    /\ now < MaxTime
    /\ now' = now + 1
    /\ UNCHANGED <<defaultExpiration, cache, CacheEnabled, pc, cacheKey,
                   encErr, netCalls, result, probed, stored, prev, arg, ret>>

\* The cache's janitor runs (every five minutes, src/exchange.go:74).
Janitor ==
    /\ Running
    /\ cache' = DeleteExpired(cache, now)
    /\ cache' # cache
    /\ UNCHANGED <<now, defaultExpiration, CacheEnabled, pc, cacheKey,
                   encErr, netCalls, result, probed, stored, prev, arg, ret>>

\* Goroutines call get concurrently.
Next ==
    \/ \E p \in Procs, enabled \in BOOLEAN : SetCache(p, enabled)
    \/ \E p \in Procs, in \in ConcurrentInputs : Begin(p, in)
    \/ \E p \in Procs : Probe(p)
    \/ \E p \in Procs : Transport(p)
    \/ \E p \in Procs : Store(p)
    \/ \E p \in Procs : Return(p)
    \/ Tick
    \/ Janitor

Spec == Init /\ [][Next]_vars

(***************************************************************************)
(* One caller: a fetch begins only when no other fetch is running; the      *)
(* calls are those of FetchInputs.  prev remembers the fetch that returned  *)
(* last when it returned a payload with caching enabled (it read the flag   *)
(* as true at line 184, and it was served from the cache or stored what it  *)
(* got from the network): its key, its payload, its network calls, and when *)
(* the item it stored or read expires (the item is still in the cache       *)
(* unless the janitor has deleted it, which it does only after it has       *)
(* expired).                                                                *)
(***************************************************************************)
BeginSeq(p, in) ==
    /\ \A o \in Procs : pc[o] = "idle"
    /\ Begin(p, in)

ReturnSeq(p) ==
    /\ Returned(p)
    /\ prev' = IF /\ result[p].err = nil
                  /\ probed[p]
                  /\ (result[p].from = "cache" \/ stored[p])
               THEN [key |-> cacheKey[p], payload |-> result[p].payload,
                     exp |-> IF cacheKey[p] \in DOMAIN cache
                             THEN cache[cacheKey[p]].Expiration ELSE now - 1,
                     calls |-> netCalls[p]]
               ELSE NoPrev

NextSeq ==
    \/ \E p \in Procs, enabled \in BOOLEAN : SetCache(p, enabled)
    \/ \E p \in Procs, in \in FetchInputs : BeginSeq(p, in)
    \/ \E p \in Procs : Probe(p)
    \/ \E p \in Procs : Transport(p)
    \/ \E p \in Procs : Store(p)
    \/ \E p \in Procs : ReturnSeq(p)
    \/ Tick
    \/ Janitor

SpecSeq == Init /\ [][NextSeq]_vars

(***************************************************************************)
(* The validators and the encoder as calls: Init draws one call, the action *)
(* makes it.                                                                *)
(***************************************************************************)
Date(y, m, d) == y \o <<"-">> \o m \o <<"-">> \o d

YearStrings ==
    { <<"0", "0", "0", "0">>, <<"1", "9", "9", "8">>, <<"1", "9", "9", "9">>,
      <<"2", "0", "2", "0">>, <<"2", "0", "2", "1">>, <<"9", "9">>,
      <<"1", "9", "9", "x">> }

MonthStrings ==
    { <<"0", "1">>, <<"0", "2">>, <<"1", "2">>, <<"1", "3">>, <<"0", "0">>, <<"1">> }

DayStrings ==
    { <<"0", "1">>, <<"0", "2">>, <<"0", "3">>, <<"0", "4">>, <<"2", "9">>,
      <<"3", "1">>, <<"0", "0">>, <<"4">> }

DateStrings ==
    { Date(y, m, d) : y \in YearStrings, m \in MonthStrings, d \in DayStrings }
    \cup { EmptyString,
           <<"1", "9", "9", "9", "/", "0", "1", "/", "0", "4">>,
           <<"1", "9", "9", "9", "-", "0", "1", "-", "0", "4", "Z">>,
           <<"1", "9", "9", "9", "0", "1", "0", "4">> }

D19990103 == Date(<<"1", "9", "9", "9">>, <<"0", "1">>, <<"0", "3">>)
D19990104 == Date(<<"1", "9", "9", "9">>, <<"0", "1">>, <<"0", "4">>)
D20200101 == Date(<<"2", "0", "2", "0">>, <<"0", "1">>, <<"0", "1">>)
D20201231 == Date(<<"2", "0", "2", "0">>, <<"1", "2">>, <<"3", "1">>)
D20210101 == Date(<<"2", "0", "2", "1">>, <<"0", "1">>, <<"0", "1">>)
D20211231 == Date(<<"2", "0", "2", "1">>, <<"1", "2">>, <<"3", "1">>)
D20220101 == Date(<<"2", "0", "2", "2">>, <<"0", "1">>, <<"0", "1">>)
D20220102 == Date(<<"2", "0", "2", "2">>, <<"0", "1">>, <<"0", "2">>)
D99991231 == Date(<<"9", "9", "9", "9">>, <<"1", "2">>, <<"3", "1">>)
D0000101 == Date(<<"0", "0", "0", "0">>, <<"0", "1">>, <<"0", "1">>)
BadDate == <<"9", "9", "-", "1", "-", "4">>

FrameDates ==
    { D0000101, D19990103, D19990104, D20200101, D20201231, D20210101, D20211231,
      D20220101, D20220102, D99991231, BadDate, EmptyString }

TimeFrames == { <<a, b>> : a \in FrameDates, b \in FrameDates }

USD == <<"U", "S", "D">>
EURO == <<"E", "U", "R", "O">>

Queries ==
    { query(f, t, b, n, sy, d, tf) :
        f \in {EmptyString, EUR},
        t \in {EmptyString, USD, <<"U", "S">>},
        b \in {EmptyString, EUR, EURO},
        n \in {0, 1, 2, 120},
        sy \in {<<>>, <<USD>>, <<USD, EUR>>, <<USD, <<"U", "S">>>>},
        d \in {EmptyString, D20210101, D19990103, BadDate},
        tf \in { NoTimeFrame, <<D20210101, D20211231>>, <<D20210101, D20220101>>,
                 <<D20211231, D20210101>>, <<D20210101, BadDate>>,
                 <<D0000101, D19990103>> } }

Calls ==
    { [op |-> "ValidateDate", date |-> d] : d \in DateStrings }
    \cup { [op |-> "ValidateTimeFrame", TimeFrame |-> tf] : tf \in TimeFrames }
    \cup { [op |-> "processQuery", q |-> q] : q \in Queries }

InitValidate ==
    /\ InitFetch
    /\ arg \in Calls
    /\ ret = NotReturned

fetchVars == <<now, defaultExpiration, cache, CacheEnabled, pc, cacheKey,
               encErr, netCalls, result, probed, stored, prev>>

CallValidateDate ==
    /\ arg.op = "ValidateDate"
    /\ ret = NotReturned
    /\ ret' = [returned |-> TRUE, err |-> ValidateDate(arg.date)]
    /\ UNCHANGED <<fetchVars, arg>>

CallValidateTimeFrame ==
    /\ arg.op = "ValidateTimeFrame"
    /\ ret = NotReturned
    /\ ret' = [returned |-> TRUE, err |-> ValidateTimeFrame(arg.TimeFrame)]
    /\ UNCHANGED <<fetchVars, arg>>

CallProcessQuery ==
    /\ arg.op = "processQuery"
    /\ ret = NotReturned
    /\ ret' = [returned |-> TRUE, err |-> processQuery(arg.q).err,
               RawQuery |-> processQuery(arg.q).RawQuery]
    /\ UNCHANGED <<fetchVars, arg>>

NextValidate ==
    \/ CallValidateDate
    \/ CallValidateTimeFrame
    \/ CallProcessQuery

SpecValidate == InitValidate /\ [][NextValidate]_vars

(***************************************************************************)
(* C4.  ValidateDate fails with ErrInvalidDateFormat for a string that is   *)
(* not a well-formed date, fails with ErrInvalidDate for a well-formed date *)
(* before 1999-01-04 (1999-01-03 among them), and succeeds for 1999-01-04   *)
(* and every later date.                                                    *)
(***************************************************************************)
C4_ValidateDateFloor ==
    (ret.returned /\ arg.op = "ValidateDate") =>
        LET parsed == parseDate(arg.date)
        IN  ret.err = IF parsed.err # nil THEN ErrInvalidDateFormat
                      ELSE IF parsed.t < daysSinceEpoch(1999, 1, 4) THEN ErrInvalidDate
                      ELSE nil

(***************************************************************************)
(* C5.  For well-formed from <= to, ValidateTimeFrame returns               *)
(* ErrTimeframeExceeded exactly when to is more than 365 days after from:   *)
(* a range of exactly 365 days is accepted.                                 *)
(***************************************************************************)
C5_TimeFrame365Days ==
    (ret.returned /\ arg.op = "ValidateTimeFrame") =>
        LET from == parseDate(arg.TimeFrame[1])
            to   == parseDate(arg.TimeFrame[2])
        IN  (from.err = nil /\ to.err = nil /\ from.t <= to.t) =>
                ((ret.err = ErrTimeframeExceeded) <=> (to.t - from.t > 365))
                /\ ret.err \in {ErrTimeframeExceeded, nil}

(***************************************************************************)
(* C6.  processQuery fails with the error of the first invalid field in the *)
(* order base, from, to, symbols, date, time frame, and then leaves no      *)
(* query string; a Symbols list with an element that is not three           *)
(* characters long fails with ErrInvalidCode.                               *)
(***************************************************************************)
C6_FirstInvalidField ==
    (ret.returned /\ arg.op = "processQuery") =>
        LET q == arg.q
            expected ==
                IF q.Base # EmptyString /\ ValidateCode(q.Base) # nil THEN ErrInvalidCode
                ELSE IF q.From # EmptyString /\ ValidateCode(q.From) # nil THEN ErrInvalidCode
                ELSE IF q.To # EmptyString /\ ValidateCode(q.To) # nil THEN ErrInvalidCode
                ELSE IF ValidateSymbols(q.Symbols) # nil THEN ErrInvalidCode
                ELSE IF q.Date # EmptyString /\ ValidateDate(q.Date) # nil
                     THEN ValidateDate(q.Date)
                ELSE IF q.TimeFrame # NoTimeFrame /\ ValidateDate(q.TimeFrame[1]) # nil
                     THEN ValidateDate(q.TimeFrame[1])
                ELSE IF q.TimeFrame # NoTimeFrame /\ ValidateTimeFrame(q.TimeFrame) # nil
                     THEN ValidateTimeFrame(q.TimeFrame)
                ELSE nil
        IN  /\ ret.err = expected
            /\ ret.err # nil => ret.RawQuery = <<>>

(***************************************************************************)
(* Properties of the fetch pipeline                                         *)
(***************************************************************************)
Unexpired(k) == k \in DOMAIN cache /\ ~(now > cache[k].Expiration)

(***************************************************************************)
(* C1.  A fetch whose query fails validation terminates with that error:    *)
(* it does not read the cache and hands no request to the HTTP client.      *)
(***************************************************************************)
C1_ValidationStopsFetch ==
    \A p \in Procs :
        (pc[p] # "idle" /\ encErr[p] # nil) =>
            /\ pc[p] = "done"
            /\ result[p].err = encErr[p]
            /\ result[p].from = ""
            /\ netCalls[p] = 0

(***************************************************************************)
(* C2.  One caller, caching enabled (the first fetch read the flag as true  *)
(* and was served from the cache or stored its payload, the second reads    *)
(* the flag as true): when the fetch that returned last returned a payload  *)
(* for key K and the next fetch is for K and looks into the cache before    *)
(* the item expires, the next fetch returns the same payload from the cache *)
(* without a network call and without touching the cache, so the two        *)
(* fetches make the network calls of the first alone (one, when the first   *)
(* went to the network).                                                    *)
(***************************************************************************)
C2_CacheRoundTrip ==
    [][\A q \in Procs :
         ( /\ pc[q] = "probe" /\ pc'[q] # "probe"
           /\ prev # NoPrev
           /\ cacheKey[q] = prev.key
           /\ ~(now > prev.exp) )
         => ( /\ pc'[q] = "done"
              /\ result'[q].err = nil
              /\ result'[q].from = "cache"
              /\ result'[q].payload = prev.payload
              /\ netCalls'[q] = 0
              /\ prev.calls + netCalls'[q] <= 1
              /\ cache' = cache )]_vars

C2_Witness ==
    \E q \in Procs :
        /\ pc[q] = "done" /\ probed[q]
        /\ result[q].from = "cache" /\ netCalls[q] = 0
        /\ prev # NoPrev /\ prev.key = cacheKey[q] /\ prev.calls = 1
        /\ result[q].payload = prev.payload

\* A fetch that read the flag as false at line 184 never looks into the
\* cache: its request is with Client.Do, which it calls once.
C3_Bypass ==
    \A p \in Procs :
        (pc[p] # "idle" /\ ~probed[p]) =>
            /\ pc[p] # "probe"
            /\ result[p].from # "cache"
            /\ netCalls[p] = 1
            /\ pc[p] \in {"store", "done", "panicked"} => result[p].from = "network"

\* The reads of the flag: a get that begins while the flag is false goes to
\* Client.Do, a get whose response arrives while the flag is false returns
\* without a store; and of get's steps only the store of line 213, which
\* follows a read of true at line 212, changes the cache.
C3_Frame ==
    \A p \in Procs :
        (pc'[p] # pc[p]) =>
            /\ (pc[p] = "idle" /\ ~CacheEnabled[p]) =>
                   (pc'[p] = "transport" /\ ~probed'[p])
            /\ (pc[p] = "transport" /\ ~CacheEnabled[p]) =>
                   (pc'[p] \in {"done", "panicked"} /\ ~stored'[p])
            /\ pc[p] # "store" => cache' = cache
            /\ pc'[p] = "store" => CacheEnabled[p]

(***************************************************************************)
(* C3.  A fetch by an Exchange with caching disabled (each of the fetch's   *)
(* reads of the flag sees it false) never returns from the cache: it makes  *)
(* its one network call even when another Exchange has stored an unexpired  *)
(* item for the key, and none of its steps changes the cache, whether it    *)
(* succeeds or fails.                                                       *)
(***************************************************************************)
C3_DisabledBypassesCache == []C3_Bypass /\ [][C3_Frame]_vars

C3_Witness ==
    \E p \in Procs :
        /\ ~CacheEnabled[p]
        /\ ~probed[p] /\ ~stored[p] /\ result[p].from = "network"
        /\ pc[p] = "done" /\ result[p].err = nil /\ netCalls[p] = 1
        /\ Unexpired(cacheKey[p])
        /\ cache[cacheKey[p]].Object # result[p].payload

(***************************************************************************)
(* C7.  Every fetch ends by returning a payload or an error: no response    *)
(* body makes get panic.                                                    *)
(***************************************************************************)
C7_NoPanic == \A p \in Procs : pc[p] # "panicked"

(***************************************************************************)
(* C8.  A fetch that looks into the cache after the next UTC midnight       *)
(* following the store of an item is never served that item.                *)
(***************************************************************************)
C8_ExpiresAtMidnight ==
    [][\A p \in Procs :
         (pc[p] = "probe" /\ pc'[p] = "done") =>
             ~(now > NextMidnight(cache[cacheKey[p]].Stored))]_vars

C9_CacheHoldsSuccesses ==
    \A k \in DOMAIN cache :
        LET x == cache[k].Object
        IN  /\ DOMAIN x = {"success", "rates"}
            /\ x.success = "true"
            /\ x.rates.request = k

C9_ErrorFrame ==
    \A p \in Procs :
        (pc[p] # pc'[p] /\ pc'[p] \in {"done", "panicked"} /\ result'[p].err # nil)
            => (cache' = cache /\ ~stored'[p])

(***************************************************************************)
(* C9.  A step of get that ends the fetch with an error leaves the cache as *)
(* it was, and every payload in the cache has success = true and is the     *)
(* upstream's answer to the request of exactly that key.                    *)
(***************************************************************************)
C9_OnlySuccessesCached == []C9_CacheHoldsSuccesses /\ [][C9_ErrorFrame]_vars

C9_Witness ==
    \E p \in Procs :
        /\ pc[p] = "done" /\ probed[p]
        /\ result[p].err = ErrInvalidAPIResponse
        /\ \E k \in DOMAIN cache : Unexpired(k) /\ k # cacheKey[p]
        /\ cacheKey[p] \notin DOMAIN cache

\* Two fetches for the same key with caching enabled (each read the flag as
\* true at both lines, looked into the cache, went to the network and stored
\* its payload) before any item could have expired: each missed the cache
\* because the other had not stored yet, so they are concurrent.
BothStored(p, q) ==
    /\ p # q
    /\ now <= DayLen
    /\ pc[p] = "done" /\ pc[q] = "done"
    /\ cacheKey[p] = cacheKey[q]
    /\ probed[p] /\ probed[q]
    /\ stored[p] /\ stored[q]
    /\ result[p].err = nil /\ result[q].err = nil
    /\ result[p].from = "network" /\ result[q].from = "network"

(***************************************************************************)
(* C10.  As claimed: two concurrent fetches for the same uncached key with  *)
(* caching enabled store equal payloads, so the cache never holds a value   *)
(* different from what either fetch returned.                               *)
(***************************************************************************)
C10_EquivalentWrites ==
    \A p, q \in Procs : BothStored(p, q) => result[p].payload = result[q].payload

C10_HoldsOneOfBoth ==
    \A p, q \in Procs :
        BothStored(p, q) =>
            /\ cacheKey[p] \in DOMAIN cache
            /\ cache[cacheKey[p]].Object \in {result[p].payload, result[q].payload}

C10_StoreWins ==
    \A p \in Procs :
        (pc[p] = "store" /\ pc'[p] # "store") =>
            /\ pc'[p] = "done" /\ stored'[p]
            /\ result'[p] = result[p]
            /\ cacheKey[p] \in DOMAIN cache'
            /\ cache'[cacheKey[p]].Object = result[p].payload

(***************************************************************************)
(* C10, amended.  Every store replaces the item of its key by the payload   *)
(* the storing fetch returns (the last write wins), and after two           *)
(* concurrent fetches the cache holds what one of them returned.            *)
(***************************************************************************)
C10_LastWriteWins == []C10_HoldsOneOfBoth /\ [][C10_StoreWins]_vars

C10_Witness ==
    \E p, q \in Procs :
        /\ BothStored(p, q)
        /\ netCalls[p] = 1 /\ netCalls[q] = 1
        /\ result[p].payload # result[q].payload
        /\ cache[cacheKey[p]].Object = result[q].payload

====
